---- MODULE Spec2Model ----
(***************************************************************************)
(* Loan-approval prediction service (src/ec2/ml-api-ec2.py) and the batch   *)
(* lambdas that feed it.                                                    *)
(*                                                                          *)
(* Numbers.  Every Python float of the program is a fixed-point integer in  *)
(* hundredths: loan_percent_income 0.4 is 40, person_income 50000 is        *)
(* 5000000, a confidence of 0.75 is 75.  Comparisons keep their meaning.    *)
(*                                                                          *)
(* JSON values.  A field value of a raw record is a record                  *)
(*     [t |-> tag, n |-> number, s |-> string]                              *)
(* with tag "missing" (key absent), "null" (None), "num" (int or float, n)  *)
(* or "str" (a string, s).                                                  *)
(*                                                                          *)
(* Specifications.  SpecRules applies predict_rule_based to a canonical     *)
(* record.  SpecBatch starts the service (load_model) and handles one POST  *)
(* /predict-batch request; the handler keeps no state between requests, so  *)
(* one request per behaviour covers them all.  SpecRead is the read path:   *)
(* the clock, the bucket and its writers, GET /predictions/latest and       *)
(* /predictions/summary over the global CACHE, one request at a time.       *)
(***************************************************************************)
EXTENDS Integers, Sequences, FiniteSets, TLC

VARIABLES
    rb_rec,     \* predict_rule_based: the record it is applied to
    rb_out,     \* predict_rule_based: what the call produced
    model,      \* the global `model`: "None" or "loaded"
    booted,     \* load_model() has run (it runs once, before app.run)
    req,        \* the body of the POST /predict-batch request handled
    clf,        \* what the classifier does on each record of that request
    resp,       \* the response predict_batch returned
    CACHE,      \* the global CACHE: [data, timestamp] (ttl is the constant TTL)
    now,        \* datetime.now(), in seconds
    store,      \* the bucket: day -> the object under predictions/<day>/
    ticks,      \* how many times the clock has advanced
    writes,     \* how many objects have been put into the bucket
    rd,         \* the read request in flight: its response and what it fetched
    apps,       \* process_loan_applications: the applications it is given
    processed,  \* process_loan_applications: what the call returned
    bucket,     \* the lambdas' S3 bucket: the object under each key
    today,      \* the lambdas' datetime.now(), as a day number
    invocations,\* asynchronous invocations of the predictor not yet run
    prun,       \* the last run of the predictor lambda
    th          \* the request threads of the service: where each one stands

vars == <<rb_rec, rb_out, model, booted, req, clf, resp,
          CACHE, now, store, ticks, writes, rd, apps, processed,
          bucket, today, invocations, prun, th>>

rulesVars == <<rb_rec, rb_out>>
batchVars == <<model, booted, req, clf, resp>>
readVars  == <<CACHE, now, store, ticks, writes, rd>>
normVars  == <<apps, processed>>
pipeVars  == <<bucket, today, invocations, prun>>
concVars  == <<th>>
extVars   == <<normVars, pipeVars, concVars>>

----------------------------------------------------------------------------
(* JSON values *)

Missing == [t |-> "missing", n |-> 0, s |-> ""]
Null    == [t |-> "null",    n |-> 0, s |-> ""]
Num(x)  == [t |-> "num",     n |-> x, s |-> ""]
Str(x)  == [t |-> "str",     n |-> 0, s |-> x]

\* dict.get(key, default): the default only when the key is absent; a key
\* whose value is None yields None.
Get(record, key, default) ==
    IF record.f[key].t = "missing" THEN default ELSE record.f[key]

\* Python's `value > bound` / `value < bound` against a float literal: defined
\* for numbers, TypeError for None and for str.
Comparable(v) == v.t = "num"

----------------------------------------------------------------------------
(* predict_rule_based *)

Fields == {"loan_percent_income", "person_income", "loan_amnt",
           "previous_loan_defaults_on_file"}

Decision(p, c) == [raised |-> FALSE, prediction |-> p, confidence |-> c]
Raised         == [raised |-> TRUE,  prediction |-> "none", confidence |-> 0]
NoOut          == [raised |-> FALSE, prediction |-> "none", confidence |-> 0]

\* A plausible slip: rule 2 tested before rule 1.
predict_rule_based_swapped(record) ==
    IF ~record.isMap THEN Raised
    ELSE
    LET loan_percent_income == Get(record, "loan_percent_income", Num(0))
        person_income       == Get(record, "person_income", Num(0))
        loan_amnt           == Get(record, "loan_amnt", Num(0))
        previous_defaults   == Get(record, "previous_loan_defaults_on_file", Str("No"))
    IN  IF ~Comparable(loan_percent_income) THEN Raised
        ELSE IF loan_percent_income.n < 20 /\ ~Comparable(person_income) THEN Raised
        ELSE IF loan_percent_income.n < 20 /\ person_income.n > 5000000
             THEN Decision("APPROVED", 80)
        ELSE IF previous_defaults = Str("Yes") \/ loan_percent_income.n > 40
             THEN Decision("REJECTED", 75)
        ELSE IF ~Comparable(loan_amnt) THEN Raised
        ELSE IF loan_amnt.n > 3500000 /\ ~Comparable(person_income) THEN Raised
        ELSE IF loan_amnt.n > 3500000 /\ person_income.n < 4000000
             THEN Decision("REJECTED", 70)
        ELSE Decision("APPROVED", 65)

\* The cascade, with Python's evaluation order: `or` and `and` short-circuit,
\* and a comparison is evaluated (and may raise TypeError) only when reached.
\* A record that is no mapping has no .get: AttributeError on the first line.
predict_rule_based(record) ==
    IF ~record.isMap THEN Raised
    ELSE
    LET loan_percent_income == Get(record, "loan_percent_income", Num(0))
        person_income       == Get(record, "person_income", Num(0))
        loan_amnt           == Get(record, "loan_amnt", Num(0))
        previous_defaults   == Get(record, "previous_loan_defaults_on_file", Str("No"))
    IN  IF previous_defaults = Str("Yes") THEN Decision("REJECTED", 75)
        ELSE IF ~Comparable(loan_percent_income) THEN Raised
        ELSE IF loan_percent_income.n > 40 THEN Decision("REJECTED", 75)
        ELSE IF loan_percent_income.n < 20 /\ ~Comparable(person_income) THEN Raised
        ELSE IF loan_percent_income.n < 20 /\ person_income.n > 5000000
             THEN Decision("APPROVED", 80)
        ELSE IF ~Comparable(loan_amnt) THEN Raised
        ELSE IF loan_amnt.n > 3500000 /\ ~Comparable(person_income) THEN Raised
        ELSE IF loan_amnt.n > 3500000 /\ person_income.n < 4000000
             THEN Decision("REJECTED", 70)
        ELSE Decision("APPROVED", 65)

Mapping(lpi, inc, amt, dflt) ==
    [isMap |-> TRUE,
     f |-> [loan_percent_income |-> lpi, person_income |-> inc, loan_amnt |-> amt,
            previous_loan_defaults_on_file |-> dflt]]

\* A record that is no JSON object (a number, a string, null, a list).
NonMapping == [isMap |-> FALSE, f |-> [k \in Fields |-> Missing]]

\* Canonical records: every field present with its declared type.  The
\* numbers sit on and around each threshold of the cascade.
CanonicalRecords ==
    { Mapping(Num(lpi), Num(inc), Num(amt), Str(d)) :
        lpi \in {0, 19, 20, 21, 40, 41, 50},
        inc \in {0, 3999999, 4000000, 5000000, 5000001, 6000000},
        amt \in {0, 3500000, 3500001, 4000000},
        d   \in {"Yes", "No"} }

----------------------------------------------------------------------------
(* POST /predict-batch *)

MaxBatch == 3

\* The raw records a request may carry: a non-mapping, the empty mapping,
\* mappings whose loan_percent_income is null, a non-numeric string or a
\* numeric string, and three canonical records (rules 2, 1 and 3).
RawRecords ==
    { NonMapping,
      Mapping(Missing, Missing, Missing, Missing),
      Mapping(Null, Num(6000000), Num(0), Str("No")),
      Mapping(Str("abc"), Missing, Missing, Missing),
      Mapping(Str("0.5"), Missing, Missing, Missing),
      Mapping(Num(10), Num(6000000), Num(1000000), Str("No")),
      Mapping(Num(50), Num(3000000), Num(4000000), Str("Yes")),
      Mapping(Num(30), Num(3000000), Num(4000000), Str("No")) }

SeqsUpTo(S, n) == UNION { [1..k -> S] : k \in 0..n }

\* request.get_json(): JSON null, or an object whose 'records' key is absent,
\* null or a list.
Body(k, r, items) == [kind |-> k, records |-> r, items |-> items]
NoReq == Body("none", "missing", <<>>)
Bodies ==
    { Body("null", "missing", <<>>),
      Body("object", "missing", <<>>),
      Body("object", "null", <<>>) }
    \cup { Body("object", "list", items) : items \in SeqsUpTo(RawRecords, MaxBatch) }

\* What model.predict / predict_proba do on one record: raise, or a class
\* with the probability of that class.
ClfRaises == [raises |-> TRUE, cls |-> 0, proba |-> 0]
ClfOutcomes ==
    { ClfRaises,
      [raises |-> FALSE, cls |-> 1, proba |-> 90],
      [raises |-> FALSE, cls |-> 0, proba |-> 55] }

\* df[feature_cols]: KeyError unless every feature column is a key of the
\* record (a non-mapping has none of them).
HasFeatures(record) ==
    record.isMap /\ \A k \in Fields : record.f[k].t # "missing"

\* The classifier is only reached on a record that has the feature columns.
ClfChoices(items) ==
    { c \in [1..Len(items) -> ClfOutcomes] :
        \A i \in 1..Len(items) : ~HasFeatures(items[i]) => c[i] = ClfRaises }

Scored(d, by) ==
    [raised |-> d.raised, prediction |-> d.prediction,
     confidence |-> d.confidence, by |-> by]

\* Lines 85-107: the classifier when loaded, the rules when it is absent or
\* its invocation raises.  The rules' own exception is not caught here.
decide(record, use_model, o) ==
    IF use_model /\ HasFeatures(record) /\ ~o.raises
    THEN Scored(Decision(IF o.cls = 1 THEN "APPROVED" ELSE "REJECTED", o.proba), "model")
    ELSE Scored(predict_rule_based(record), "rules")

\* A plausible slip: the rate cut to two decimals instead of rounded.
approval_rate_truncated(approved_count, total) ==
    IF total = 0 THEN 0
    ELSE (approved_count * 10000) \div total

\* round(approved_count / len(predictions) * 100, 2), in hundredths of a
\* percent (no tie occurs for fewer than 32 predictions).
approval_rate(approved_count, total) ==
    IF total = 0 THEN 0
    ELSE (2 * approved_count * 10000 + total) \div (2 * total)

Stats(t, a, r, rate) ==
    [total_applications |-> t, approved_count |-> a, rejected_count |-> r,
     approval_rate |-> rate]

Response(st, preds, stats, method) ==
    [status |-> st, predictions |-> preds, stats |-> stats, method |-> method]
NoResp == Response(0, <<>>, Stats(0, 0, 0, 0), "none")
ErrorResponse(st) == Response(st, <<>>, Stats(0, 0, 0, 0), "none")

Entry(i, d) ==
    [src |-> i, decision |-> d.prediction, confidence |-> d.confidence, by |-> d.by]

\* A plausible slip: predictions.insert(0, ...) in place of append.
RECURSIVE score_from_prepend(_, _, _, _, _)
score_from_prepend(items, choice, use_model, i, acc) ==
    IF i > Len(items) \/ acc.aborted THEN acc
    ELSE
    LET d == decide(items[i], use_model, choice[i])
    IN  IF d.raised
        THEN IF items[i].isMap
             THEN score_from_prepend(items, choice, use_model, i + 1, acc)
             ELSE [acc EXCEPT !.aborted = TRUE]
        ELSE score_from_prepend(items, choice, use_model, i + 1,
               [acc EXCEPT
                  !.predictions = <<Entry(i, d)>> \o @,
                  !.approved_count = IF d.prediction = "APPROVED" THEN @ + 1 ELSE @,
                  !.rejected_count = IF d.prediction = "APPROVED" THEN @ ELSE @ + 1])

\* The loop of lines 83-127 from record i on.  acc.aborted: an exception left
\* the loop (line 126 calls record.get inside the handler, which raises again
\* when the record is no mapping).
RECURSIVE score_from(_, _, _, _, _)
score_from(items, choice, use_model, i, acc) ==
    IF i > Len(items) \/ acc.aborted THEN acc
    ELSE
    LET d == decide(items[i], use_model, choice[i])
    IN  IF d.raised
        THEN IF items[i].isMap
             THEN score_from(items, choice, use_model, i + 1, acc)
             ELSE [acc EXCEPT !.aborted = TRUE]
        ELSE score_from(items, choice, use_model, i + 1,
               [acc EXCEPT
                  !.predictions = Append(@, Entry(i, d)),
                  !.approved_count = IF d.prediction = "APPROVED" THEN @ + 1 ELSE @,
                  !.rejected_count = IF d.prediction = "APPROVED" THEN @ ELSE @ + 1])

LoopStart ==
    [predictions |-> <<>>, approved_count |-> 0, rejected_count |-> 0,
     aborted |-> FALSE]

\* The whole handler, as a function of the body, the classifier's behaviour
\* and whether a model is loaded.
predict_batch_response(body, choice, use_model) ==
    IF body.kind = "null" THEN ErrorResponse(500)
    ELSE IF body.records # "list" \/ body.items = <<>> THEN ErrorResponse(400)
    ELSE
    LET acc == score_from(body.items, choice, use_model, 1, LoopStart)
    IN  IF acc.aborted THEN ErrorResponse(500)
        ELSE Response(200, acc.predictions,
                      Stats(Len(acc.predictions), acc.approved_count, acc.rejected_count,
                            approval_rate(acc.approved_count, Len(acc.predictions))),
                      IF use_model THEN "ml_model" ELSE "rule_based")

----------------------------------------------------------------------------
(* process_loan_applications (lambda-loan-processor): the normalizer *)

\* float(s) for the strings of the model: defined on numeric literals only.
FloatOf == ("0.5" :> 50) @@ ("60000" :> 6000000)

\* safe_float: 0.0 for None, '' and 'null'; float(value) otherwise, and 0.0
\* when float() raises.
safe_float(value) ==
    IF value.t = "null" \/ (value.t = "str" /\ value.s \in {"", "null"}) THEN 0
    ELSE IF value.t = "num" THEN value.n
    ELSE IF value.t = "str" /\ value.s \in DOMAIN FloatOf THEN FloatOf[value.s]
    ELSE 0

\* The record process_loan_applications builds from one mapping: the float
\* fields through safe_float, the string field passed through app.get.
processed_record(app) ==
    Mapping(Num(safe_float(Get(app, "loan_percent_income", Num(0)))),
            Num(safe_float(Get(app, "person_income", Num(0)))),
            Num(safe_float(Get(app, "loan_amnt", Num(0)))),
            Get(app, "previous_loan_defaults_on_file", Str("No")))

\* The sixteen fields of a processed record, by the coercion line 100-116
\* applies: safe_int, safe_float, or app.get alone.
IntFields == {"person_age", "person_emp_exp", "cb_person_cred_hist_length"}
FloatFields == {"person_income", "loan_amnt", "loan_int_rate", "loan_percent_income"}
StrFields ==
    {"person_gender", "employment_type", "person_home_ownership", "loan_intent",
     "account_type", "person_education", "previous_loan_defaults_on_file",
     "application_id", "timestamp"}
SchemaFields == IntFields \cup FloatFields \cup StrFields

\* Values of a processed record carry their Python type: int, float, or the
\* value app.get passed through as it was.
IntVal(x)   == [t |-> "int",   n |-> x, s |-> ""]
FloatVal(x) == [t |-> "float", n |-> x, s |-> ""]

\* int(s) for the strings of the model: defined on integer literals only
\* (int("0.5") raises ValueError).
IntOf == ("60000" :> 6000000)

\* int(x) of a number truncates toward zero.
Truncated(n) == IF n >= 0 THEN (n \div 100) * 100 ELSE -(((-n) \div 100) * 100)

\* A plausible slip: the field coerced with float() instead of int().
safe_int_as_float(value) ==
    IF value.t = "null" \/ (value.t = "str" /\ value.s \in {"", "null"}) THEN 0
    ELSE IF value.t = "num" THEN value.n
    ELSE IF value.t = "str" /\ value.s \in DOMAIN FloatOf THEN FloatOf[value.s]
    ELSE 0

\* safe_int: 0 for None, '' and 'null'; int(value) otherwise, and 0 when
\* int() raises.
safe_int(value) ==
    IF value.t = "null" \/ (value.t = "str" /\ value.s \in {"", "null"}) THEN 0
    ELSE IF value.t = "num" THEN Truncated(value.n)
    ELSE IF value.t = "str" /\ value.s \in DOMAIN IntOf THEN IntOf[value.s]
    ELSE 0

\* app.get(key, default) on an application of sixteen fields.
StrDefault(key) ==
    IF key = "person_education" THEN Str("High School")
    ELSE IF key = "previous_loan_defaults_on_file" THEN Str("No")
    ELSE IF key = "application_id" THEN Str("")
    ELSE IF key = "timestamp" THEN Str("now")
    ELSE Str("Unknown")

\* Lines 99-117: the dict built from one application (a mapping).
build_record(app) ==
    [k \in SchemaFields |->
        IF k \in IntFields THEN IntVal(safe_int(Get(app, k, Num(0))))
        ELSE IF k \in FloatFields THEN FloatVal(safe_float(Get(app, k, Num(0))))
        ELSE Get(app, k, StrDefault(k))]

\* Lines 96-121 from application i on: an application that is no mapping
\* raises at app.get and is skipped by the except.
RECURSIVE process_from(_, _, _)
process_from(applications, i, records) ==
    IF i > Len(applications) THEN records
    ELSE IF applications[i].isMap
         THEN process_from(applications, i + 1,
                           Append(records, [src |-> i, f |-> build_record(applications[i])]))
         ELSE process_from(applications, i + 1, records)

\* process_loan_applications: processed_count and records.
process_loan_applications(applications) ==
    LET records == process_from(applications, 1, <<>>)
    IN  [called |-> TRUE, processed_count |-> Len(records), records |-> records]
NotProcessed == [called |-> FALSE, processed_count |-> 0, records |-> <<>>]

App(fields) == [isMap |-> TRUE, f |-> fields]
EmptyApp == App([k \in SchemaFields |-> Missing])
\* An application with every field present and of its declared type.
FullApp ==
    App([k \in SchemaFields |->
           IF k \in IntFields THEN Num(3000)
           ELSE IF k \in FloatFields THEN Num(1250)
           ELSE Str("x")])
NonMappingApp == [isMap |-> FALSE, f |-> [k \in SchemaFields |-> Missing]]

\* What one field of an application may hold: absent, null, an integer, a
\* number with a fraction, a negative number, and strings (empty, 'null',
\* not a number, a decimal literal, an integer literal, a word).
ProbeValues ==
    { Missing, Null, Num(2500), Num(2550), Num(-150), Str(""), Str("null"),
      Str("abc"), Str("0.5"), Str("60000"), Str("Yes") }

\* The applications of the model: the empty and the full application with
\* one field set to each value, and a non-mapping.
Applications ==
    { NonMappingApp }
    \cup { App([base.f EXCEPT ![k] = v]) :
             base \in {EmptyApp, FullApp}, k \in SchemaFields, v \in ProbeValues }

NormIdle ==
    /\ apps = <<>>
    /\ processed = NotProcessed


----------------------------------------------------------------------------
(* GET /predictions/latest, /predictions/summary: data shapes *)

TTL == 300
CAP == 20
SecondsPerDay == 86400
MaxTicks == 3
MaxWrites == 2

Days == 0..MaxTicks
Date(t) == t \div SecondsPerDay

\* One entry of a persisted prediction list; decision "missing": the entry
\* has no 'decision' key.
MkPreds(ds) == [i \in 1..Len(ds) |-> [id |-> i, decision |-> ds[i]]]

\* A persisted 'stats' object.  shape "api": the keys total_applications,
\* approved_count, rejected_count, approval_rate; shape "lambda": the keys the
\* predictor lambda writes (total_applications, approved, rejected,
\* approval_rate); "absent": no 'stats' key; "null": 'stats' is null.
PStats(shape, t, a, r, rate) ==
    [shape |-> shape, total |-> t, approved |-> a, rejected |-> r, rate |-> rate]

\* The object under a partition key.  kind: "notfound" (no such key),
\* "garbage" (not JSON), "emptylist" ([]), "list" (a non-empty JSON array),
\* "emptyobj" ({}), "otherobj" (an object without 'predictions'), "bundle"
\* (an object with 'predictions').
Doc(kind, preds, stats) == [kind |-> kind, preds |-> preds, stats |-> stats]
NoStats  == PStats("absent", 0, 0, 0, 0)
NotFound == Doc("notfound", <<>>, NoStats)

\* What load_predictions_fast returns and CACHE['data'] holds.  kind "None":
\* no data; "capped": the dict of lines 186-194; "raw": the parsed document
\* itself (line 196), raw naming its kind; "empty": the dict of lines 209-216.
Data(kind, raw, preds, t, a, r, rate, ts, date) ==
    [kind |-> kind, raw |-> raw, predictions |-> preds, total_applications |-> t,
     approved_count |-> a, rejected_count |-> r, approval_rate |-> rate,
     timestamp |-> ts, date |-> date]
None == Data("None", "none", <<>>, 0, 0, 0, 0, -1, -1)

\* The global CACHE at start: data None, timestamp None (-1).
CACHE0 == [data |-> None, timestamp |-> -1]

\* A read request handled: the status and body of the response, with what
\* the handler did (data: what load_predictions_fast returned; fetched: the
\* partitions it asked the bucket for, in order; hit: it returned at line
\* 167; found: it returned at line 202; before: CACHE when the request
\* arrived; at: the time of the request).
ReadResponse(op, st, data, body, fetched, hit, found, before, at) ==
    [op |-> op, status |-> st, data |-> data, body |-> body, fetched |-> fetched,
     hit |-> hit, found |-> found, before |-> before, at |-> at]
NoRd == ReadResponse("none", 0, None, None, <<>>, FALSE, FALSE, CACHE0, -1)

\* Each part of the service at rest.
RulesIdle ==
    /\ rb_rec = NonMapping
    /\ rb_out = NoOut
BatchIdle ==
    /\ model = "None"
    /\ booted = FALSE
    /\ req = NoReq
    /\ clf = <<>>
    /\ resp = NoResp
ReadIdle ==
    /\ CACHE = CACHE0
    /\ now = 0
    /\ store = [d \in Days |-> NotFound]
    /\ ticks = 0
    /\ writes = 0
    /\ rd = NoRd

----------------------------------------------------------------------------
(* The bucket and its writers *)

Alt(n) == [i \in 1..n |-> IF i % 2 = 1 THEN "APPROVED" ELSE "REJECTED"]
CountOf(ds, d) == Cardinality({ i \in 1..Len(ds) : ds[i] = d })

\* The decisions of one run of the predictor lambda: a short run, and one
\* with more than CAP of each decision, interleaved.
PredictorRuns == { <<"REJECTED", "APPROVED", "APPROVED">>, Alt(2 * CAP + 2) }

\* lambda-loan-predictor, lines 96-116: the document it puts under
\* predictions/<today>/, its stats under the keys total_applications,
\* approved, rejected, approval_rate.
PredictorDoc(ds) ==
    Doc("bundle", MkPreds(ds),
        PStats("lambda", Len(ds), CountOf(ds, "APPROVED"), CountOf(ds, "REJECTED"),
               approval_rate(CountOf(ds, "APPROVED"), Len(ds))))

\* Anything else the key may hold when the service reads it.
OtherDocs ==
    { Doc("garbage", <<>>, NoStats),
      Doc("emptylist", <<>>, NoStats),
      Doc("list", <<>>, NoStats),
      Doc("emptyobj", <<>>, NoStats),
      Doc("otherobj", <<>>, NoStats),
      Doc("bundle", MkPreds(<<"APPROVED", "PENDING", "REJECTED">>),
          PStats("api", 3, 1, 1, 3333)),
      Doc("bundle", MkPreds(<<"APPROVED", "REJECTED">>), NoStats),
      Doc("bundle", MkPreds(<<"APPROVED", "REJECTED">>), PStats("null", 0, 0, 0, 0)),
      Doc("bundle", MkPreds(<<"APPROVED", "missing">>), PStats("api", 2, 1, 1, 5000)) }

ObjectAt(st, day) == IF day \in DOMAIN st THEN st[day] ELSE NotFound

----------------------------------------------------------------------------
(* The lambdas: extract -> process -> predict through the bucket *)

\* Keys of the lambdas' bucket: folder, day partition, file.  raw_key stands
\* for the latest raw/<day>/data_<timestamp>.json, the only one the processor
\* reads.
Key(folder, day, file) == [folder |-> folder, day |-> day, file |-> file]
\* f"raw/{date_str}/data_{timestamp_str}.json"
raw_key(day)         == Key("raw", day, "data")
\* output_key = f'processed/{today}/summary_{today}.json'
summary_key(day)     == Key("processed", day, "summary")
\* processed_key = f'processed/{today}/applications_{today}.json'
processed_key(day)   == Key("processed", day, "applications")
\* output_key = f'predictions/{today}/predictions_{today}.json'
predictions_key(day) == Key("predictions", day, "predictions")

MaxDays == 1
MaxPending == 2
PipelineDays == 0..MaxDays
Keys ==
    UNION { { raw_key(d), summary_key(d), processed_key(d), predictions_key(d) } :
            d \in PipelineDays }

\* An object of the bucket: nothing, a raw file, the processor's output, or
\* the predictor's bundle.
Object(kind, raw, out, doc) == [kind |-> kind, raw |-> raw, out |-> out, doc |-> doc]
NoSuchKey == Object("absent", <<>>, NotProcessed, NotFound)
RawObject(applications)   == Object("raw", applications, NotProcessed, NotFound)
ProcessedObject(out)      == Object("processed", <<>>, out, NotFound)
PredictionsObject(doc)    == Object("predictions", <<>>, NotProcessed, doc)

\* What the extractor's API may answer: a list of applications.
RawFiles ==
    { <<FullApp>>, <<EmptyApp, NonMappingApp>>, <<FullApp, EmptyApp>> }

\* An asynchronous invocation of the predictor (its payload is {}); `wrote`
\* remembers the key the invoking processor run had just written.
Invocation(key) == [wrote |-> key]

\* A run of the predictor: the invocation it served, the key it asked for,
\* its statusCode and whether it put the predictions object.
Run(ran, wrote, read, statusCode, persisted) ==
    [ran |-> ran, wrote |-> wrote, read |-> read, statusCode |-> statusCode,
     persisted |-> persisted]
NoRun == Run(FALSE, Key("none", 0, "none"), Key("none", 0, "none"), 0, FALSE)

PipeIdle ==
    /\ bucket = [k \in Keys |-> NoSuchKey]
    /\ today = 0
    /\ invocations = <<>>
    /\ prun = NoRun

----------------------------------------------------------------------------
(* Read requests handled by concurrent threads (app.run, line 706) *)

Threads == {"t1", "t2"}

\* A request thread inside load_predictions_fast.  pc: "idle", "fetch"
\* (before get_object of pass days_ago), "write_data" (before line 198),
\* "write_ts" (before line 199), "respond" (returning).  result: the local
\* variable result; torn: the cache entry it checked had the data of a refill
\* whose timestamp was not yet written.
Thread(pc, days_ago, result, torn) ==
    [pc |-> pc, days_ago |-> days_ago, result |-> result, torn |-> torn]
ThreadIdle == Thread("idle", 0, None, FALSE)

\* What today's key holds when the threads run.
ConcDocs ==
    { NotFound,
      PredictorDoc(<<"REJECTED", "APPROVED", "APPROVED">>),
      Doc("list", <<>>, NoStats),
      Doc("emptyobj", <<>>, NoStats) }

ConcIdle == th = [t \in Threads |-> ThreadIdle]
ExtIdle == NormIdle /\ PipeIdle /\ ConcIdle

----------------------------------------------------------------------------
(* get_cached_data, load_predictions_fast, get_latest, get_summary *)

\* A plausible slip: the boundary served from the cache.
get_cached_data_inclusive(cache, t) ==
    IF cache.data = None \/ cache.timestamp = -1 THEN None
    ELSE IF t - cache.timestamp <= TTL THEN cache.data
    ELSE None

get_cached_data(cache, t) ==
    IF cache.data = None \/ cache.timestamp = -1 THEN None
    ELSE IF t - cache.timestamp < TTL THEN cache.data
    ELSE None

\* Python truth of what get_cached_data returned (`if cached:`): None, {}
\* and [] are false.
Truthy(data) ==
    /\ data.kind # "None"
    /\ ~(data.kind = "raw" /\ data.raw \in {"emptyobj", "emptylist"})

Min(a, b) == IF a < b THEN a ELSE b
FirstCap(seq) == SubSeq(seq, 1, Min(CAP, Len(seq)))
IsApproved(p) == p.decision = "APPROVED"
IsRejected(p) == p.decision = "REJECTED"

\* data.get('stats', {}).get(key, 0) for the four keys the reader asks for.
StatRead(stats, key) ==
    IF key = "total_applications"
    THEN (IF stats.shape \in {"api", "lambda"} THEN stats.total ELSE 0)
    ELSE IF key = "approved_count"
    THEN (IF stats.shape = "api" THEN stats.approved ELSE 0)
    ELSE IF key = "rejected_count"
    THEN (IF stats.shape = "api" THEN stats.rejected ELSE 0)
    ELSE (IF stats.shape \in {"api", "lambda"} THEN stats.rate ELSE 0)

\* One pass of the loop body, lines 172-206, on the object `doc` of
\* partition `day` at time t.  ok: the pass returned (line 202); wrote: it
\* reached lines 198-199.  A JSON array gets as far as the cache write and
\* raises at line 201 (a list has no .get).
attempt(doc, day, t) ==
    IF doc.kind \in {"notfound", "garbage"}
    THEN [ok |-> FALSE, wrote |-> FALSE, result |-> None]
    ELSE IF doc.kind \in {"emptylist", "list"}
    THEN [ok |-> FALSE, wrote |-> TRUE,
          result |-> Data("raw", doc.kind, <<>>, 0, 0, 0, 0, -1, -1)]
    ELSE IF doc.kind \in {"emptyobj", "otherobj"}
    THEN [ok |-> TRUE, wrote |-> TRUE,
          result |-> Data("raw", doc.kind, <<>>, 0, 0, 0, 0, -1, -1)]
    ELSE IF \E i \in 1..Len(doc.preds) : doc.preds[i].decision = "missing"
    THEN [ok |-> FALSE, wrote |-> FALSE, result |-> None]
    ELSE IF doc.stats.shape = "null"
    THEN [ok |-> FALSE, wrote |-> FALSE, result |-> None]
    ELSE [ok |-> TRUE, wrote |-> TRUE,
          result |-> Data("capped", "none",
                          FirstCap(SelectSeq(doc.preds, IsApproved))
                             \o FirstCap(SelectSeq(doc.preds, IsRejected)),
                          StatRead(doc.stats, "total_applications"),
                          StatRead(doc.stats, "approved_count"),
                          StatRead(doc.stats, "rejected_count"),
                          StatRead(doc.stats, "approval_rate"),
                          t, day)]

\* A plausible slip: range(3).
LOOKBACK_three == 2 + 1

\* for days_ago in range(2)
LOOKBACK == 2

EmptyBundle(t) == Data("empty", "none", <<>>, 0, 0, 0, 0, t, -1)

\* The loop of lines 171-206 from days_ago on, then lines 208-216.
RECURSIVE lookback(_, _, _, _, _)
lookback(cache, t, st, days_ago, fetched) ==
    IF days_ago >= LOOKBACK
    THEN [data |-> EmptyBundle(t), cache |-> cache, fetched |-> fetched,
          hit |-> FALSE, found |-> FALSE]
    ELSE
    LET day == Date(t) - days_ago
        a   == attempt(ObjectAt(st, day), day, t)
        c   == IF a.wrote THEN [data |-> a.result, timestamp |-> t] ELSE cache
    IN  IF a.ok
        THEN [data |-> a.result, cache |-> c, fetched |-> Append(fetched, day),
              hit |-> FALSE, found |-> TRUE]
        ELSE lookback(c, t, st, days_ago + 1, Append(fetched, day))

load_predictions_fast(cache, t, st) ==
    LET cached == get_cached_data(cache, t)
    IN  IF Truthy(cached)
        THEN [data |-> cached, cache |-> cache, fetched |-> <<>>,
              hit |-> TRUE, found |-> FALSE]
        ELSE lookback(cache, t, st, 0, <<>>)

IsList(data) == data.kind = "raw" /\ data.raw \in {"emptylist", "list"}

\* GET /predictions/latest: jsonify of whatever load_predictions_fast returned.
get_latest ==
    /\ rd = NoRd
    /\ LET r == load_predictions_fast(CACHE, now, store)
       IN  /\ CACHE' = r.cache
           /\ rd' = ReadResponse("latest", 200, r.data, r.data, r.fetched,
                                  r.hit, r.found, CACHE, now)
    /\ UNCHANGED <<now, store, ticks, writes, rulesVars, batchVars, extVars>>

\* The dict get_summary builds with data.get (lines 242-248).
Summary(data, t) ==
    Data("summary", "none", <<>>, data.total_applications, data.approved_count,
         data.rejected_count, data.approval_rate,
         IF data.kind = "raw" THEN t ELSE data.timestamp, -1)

\* GET /predictions/summary: a list has no .get, and the except answers 500.
get_summary ==
    /\ rd = NoRd
    /\ LET r == load_predictions_fast(CACHE, now, store)
       IN  /\ CACHE' = r.cache
           /\ rd' = IF IsList(r.data)
                    THEN ReadResponse("summary", 500, r.data, None, r.fetched,
                                      r.hit, r.found, CACHE, now)
                    ELSE ReadResponse("summary", 200, r.data, Summary(r.data, now),
                                      r.fetched, r.hit, r.found, CACHE, now)
    /\ UNCHANGED <<now, store, ticks, writes, rulesVars, batchVars, extVars>>

\* The body of GET /health (lines 221-226).
Health(loaded, valid, t) ==
    [kind |-> "health", status |-> "healthy", model_loaded |-> loaded,
     cache_valid |-> valid, timestamp |-> t]

\* GET /health: reads the cache entry through get_cached_data and writes
\* nothing.
health ==
    /\ rd = NoRd
    /\ rd' = ReadResponse("health", 200, None,
                          Health(model # "None", get_cached_data(CACHE, now) # None, now),
                          <<>>, FALSE, FALSE, CACHE, now)
    /\ UNCHANGED <<CACHE, now, store, ticks, writes, rulesVars, batchVars, extVars>>

\* The response leaves the service.
response_sent ==
    /\ rd # NoRd
    /\ rd' = NoRd
    /\ UNCHANGED <<CACHE, now, store, ticks, writes, rulesVars, batchVars, extVars>>

\* datetime.now() moves on: by a second, by just under the TTL, by a day.
ClockSteps == {1, TTL - 1, SecondsPerDay}
clock_advances ==
    /\ rd = NoRd
    /\ ticks < MaxTicks
    /\ \E d \in ClockSteps : now' = now + d
    /\ ticks' = ticks + 1
    /\ UNCHANGED <<CACHE, store, writes, rd, rulesVars, batchVars, extVars>>

\* The predictor lambda puts today's predictions document.
predictor_put ==
    /\ rd = NoRd
    /\ writes < MaxWrites
    /\ \E ds \in PredictorRuns :
          store' = [store EXCEPT ![Date(now)] = PredictorDoc(ds)]
    /\ writes' = writes + 1
    /\ UNCHANGED <<CACHE, now, ticks, rd, rulesVars, batchVars, extVars>>

\* Today's key comes to hold something else.
bucket_put ==
    /\ rd = NoRd
    /\ writes < MaxWrites
    /\ \E doc \in OtherDocs : store' = [store EXCEPT ![Date(now)] = doc]
    /\ writes' = writes + 1
    /\ UNCHANGED <<CACHE, now, ticks, rd, rulesVars, batchVars, extVars>>

InitRead ==
    /\ RulesIdle
    /\ BatchIdle
    /\ ReadIdle
    /\ ExtIdle
NextRead ==
    \/ get_latest
    \/ get_summary
    \/ health
    \/ response_sent
    \/ clock_advances
    \/ predictor_put
    \/ bucket_put
SpecRead == InitRead /\ [][NextRead]_vars

----------------------------------------------------------------------------
(* Specifications of the parts *)

\* predict_rule_based applied to a canonical record.
call_predict_rule_based ==
    /\ rb_out = NoOut
    /\ rb_out' = predict_rule_based(rb_rec)
    /\ UNCHANGED <<rb_rec, batchVars, readVars, extVars>>

InitRules ==
    /\ rb_rec \in CanonicalRecords
    /\ rb_out = NoOut
    /\ BatchIdle
    /\ ReadIdle
    /\ ExtIdle
NextRules == call_predict_rule_based
SpecRules == InitRules /\ [][NextRules]_vars

\* load_model() at start-up: the artifact loads, or the exception leaves None.
load_model ==
    /\ ~booted
    /\ booted' = TRUE
    /\ model' \in {"None", "loaded"}
    /\ UNCHANGED <<req, clf, resp, rulesVars, readVars, extVars>>

\* The handler of POST /predict-batch on one request.
predict_batch ==
    /\ booted
    /\ resp = NoResp
    /\ \E body \in Bodies :
         \E choice \in (IF model = "loaded" THEN ClfChoices(body.items)
                        ELSE {[i \in 1..Len(body.items) |-> ClfRaises]}) :
            /\ req' = body
            /\ clf' = choice
            /\ resp' = predict_batch_response(body, choice, model # "None")
    /\ UNCHANGED <<model, booted, rulesVars, readVars, extVars>>

InitBatch ==
    /\ RulesIdle
    /\ BatchIdle
    /\ ReadIdle
    /\ ExtIdle
NextBatch ==
    \/ load_model
    \/ predict_batch
SpecBatch == InitBatch /\ [][NextBatch]_vars

\* process_loan_applications applied to the applications of one raw file.
call_process_loan_applications ==
    /\ ~processed.called
    /\ processed' = process_loan_applications(apps)
    /\ UNCHANGED <<apps, rulesVars, batchVars, readVars, pipeVars, concVars>>

InitNorm ==
    /\ apps \in { <<a>> : a \in Applications }
               \cup { <<a, NonMappingApp, b>> : a, b \in {EmptyApp, FullApp} }
    /\ processed = NotProcessed
    /\ PipeIdle
    /\ ConcIdle
    /\ RulesIdle
    /\ BatchIdle
    /\ ReadIdle
NextNorm == call_process_loan_applications
SpecNorm == InitNorm /\ [][NextNorm]_vars

\* lambda-loan-extractor: the API's answer is put under today's raw prefix.
extractor_lambda_handler ==
    /\ \E api_json \in RawFiles :
          bucket' = [bucket EXCEPT ![raw_key(today)] = RawObject(api_json)]
    /\ UNCHANGED <<today, invocations, prun, rulesVars, batchVars, readVars, normVars, concVars>>

\* lambda-loan-processor: nothing to do without a raw file; otherwise the
\* latest raw file is processed, the result put under summary_<day>.json and
\* the predictor invoked asynchronously.
processor_lambda_handler ==
    /\ Len(invocations) < MaxPending
    /\ bucket[raw_key(today)].kind = "raw"
    /\ LET processed_data == process_loan_applications(bucket[raw_key(today)].raw)
       IN  bucket' = [bucket EXCEPT ![summary_key(today)] = ProcessedObject(processed_data)]
    /\ invocations' = Append(invocations, Invocation(summary_key(today)))
    /\ UNCHANGED <<today, prun, rulesVars, batchVars, readVars, normVars, concVars>>

\* lambda-loan-predictor, serving the oldest pending invocation: get_object
\* on applications_<day>.json raises when the key is absent, and so does
\* df[feature_cols] on no records; the except answers 500.  Otherwise the
\* classifier decides each record and the bundle is put.
predictor_lambda_handler ==
    /\ invocations # <<>>
    /\ invocations' = Tail(invocations)
    /\ LET wrote == Head(invocations).wrote
           key   == processed_key(today)
           obj   == bucket[key]
       IN  IF obj.kind # "processed" \/ obj.out.records = <<>>
           THEN /\ prun' = Run(TRUE, wrote, key, 500, FALSE)
                /\ UNCHANGED bucket
           ELSE \E ds \in [1..Len(obj.out.records) -> {"APPROVED", "REJECTED"}] :
                /\ bucket' = [bucket EXCEPT ![predictions_key(today)] =
                                 PredictionsObject(PredictorDoc(ds))]
                /\ prun' = Run(TRUE, wrote, key, 200, TRUE)
    /\ UNCHANGED <<today, rulesVars, batchVars, readVars, normVars, concVars>>

\* Midnight: datetime.now().strftime('%Y%m%d') changes.
midnight ==
    /\ today < MaxDays
    /\ today' = today + 1
    /\ UNCHANGED <<bucket, invocations, prun, rulesVars, batchVars, readVars, normVars, concVars>>

InitPipeline ==
    /\ PipeIdle
    /\ ConcIdle
    /\ NormIdle
    /\ RulesIdle
    /\ BatchIdle
    /\ ReadIdle
NextPipeline ==
    \/ extractor_lambda_handler
    \/ processor_lambda_handler
    \/ predictor_lambda_handler
    \/ midnight
SpecPipeline == InitPipeline /\ [][NextPipeline]_vars

\* The pass of the loop that follows pass days_ago, or lines 208-216 after
\* the last one.
next_pass(t) ==
    IF th[t].days_ago + 1 < LOOKBACK
    THEN Thread("fetch", th[t].days_ago + 1, None, th[t].torn)
    ELSE Thread("respond", 0, EmptyBundle(now), th[t].torn)

\* Lines 164-167: the thread reads the cache entry and returns it when it
\* is fresh and true.
ttl_check(t) ==
    /\ th[t].pc = "idle"
    /\ LET cached == get_cached_data(CACHE, now)
           torn   == \E u \in Threads \ {t} : th[u].pc = "write_ts"
       IN  th' = [th EXCEPT ![t] =
                    IF Truthy(cached) THEN Thread("respond", 0, cached, torn)
                    ELSE Thread("fetch", 0, None, FALSE)]
    /\ UNCHANGED <<readVars, rulesVars, batchVars, normVars, pipeVars>>

\* Lines 172-196: get_object, json.loads and the building of result.
get_object(t) ==
    /\ th[t].pc = "fetch"
    /\ LET day == Date(now) - th[t].days_ago
           a   == attempt(ObjectAt(store, day), day, now)
       IN  th' = [th EXCEPT ![t] =
                    IF a.wrote THEN Thread("write_data", th[t].days_ago, a.result, th[t].torn)
                    ELSE next_pass(t)]
    /\ UNCHANGED <<readVars, rulesVars, batchVars, normVars, pipeVars>>

\* Line 198: CACHE['data'] = result.
cache_data_write(t) ==
    /\ th[t].pc = "write_data"
    /\ CACHE' = [CACHE EXCEPT !.data = th[t].result]
    /\ th' = [th EXCEPT ![t].pc = "write_ts"]
    /\ UNCHANGED <<now, store, ticks, writes, rd, rulesVars, batchVars, normVars, pipeVars>>

\* Lines 199-206: CACHE['timestamp'] = datetime.now(), then the return, or
\* the next pass when result is a list (line 201 raises).
cache_timestamp_write(t) ==
    /\ th[t].pc = "write_ts"
    /\ CACHE' = [CACHE EXCEPT !.timestamp = now]
    /\ th' = [th EXCEPT ![t] =
                IF IsList(th[t].result) THEN next_pass(t)
                ELSE Thread("respond", 0, th[t].result, th[t].torn)]
    /\ UNCHANGED <<now, store, ticks, writes, rd, rulesVars, batchVars, normVars, pipeVars>>

\* The thread's response leaves the service.
thread_responds(t) ==
    /\ th[t].pc = "respond"
    /\ th' = [th EXCEPT ![t] = ThreadIdle]
    /\ UNCHANGED <<readVars, rulesVars, batchVars, normVars, pipeVars>>

InitConc ==
    /\ CACHE = CACHE0
    /\ now = 0
    /\ \E doc \in ConcDocs : store = [d \in Days |-> IF d = 0 THEN doc ELSE NotFound]
    /\ ticks = 0
    /\ writes = 0
    /\ rd = NoRd
    /\ ConcIdle
    /\ NormIdle
    /\ PipeIdle
    /\ RulesIdle
    /\ BatchIdle
NextConc ==
    \/ \E t \in Threads :
          \/ ttl_check(t)
          \/ get_object(t)
          \/ cache_data_write(t)
          \/ cache_timestamp_write(t)
          \/ thread_responds(t)
    \/ clock_advances
SpecConc == InitConc /\ [][NextConc]_vars

----------------------------------------------------------------------------
(* Claims *)

Rule(p, c) == Decision(p, c)

\* C1: on every canonical record predict_rule_based returns without raising,
\* and returns the result of the first matching rule of the cascade: rule 1
\* wins over rules 2 and 3.
C1_RuleCascadeFirstMatch ==
    rb_out # NoOut =>
        LET lpi == rb_rec.f["loan_percent_income"].n
            inc == rb_rec.f["person_income"].n
            amt == rb_rec.f["loan_amnt"].n
            dfl == rb_rec.f["previous_loan_defaults_on_file"].s
        IN  /\ ~rb_out.raised
            /\ rb_out = IF dfl = "Yes" \/ lpi > 40 THEN Rule("REJECTED", 75)
                        ELSE IF lpi < 20 /\ inc > 5000000 THEN Rule("APPROVED", 80)
                        ELSE IF amt > 3500000 /\ inc < 4000000 THEN Rule("REJECTED", 70)
                        ELSE Rule("APPROVED", 65)

\* A record on file with defaults that also satisfies rule 2 was decided.
C1_Witness ==
    /\ rb_out = Rule("REJECTED", 75)
    /\ rb_rec.f["previous_loan_defaults_on_file"].s = "Yes"
    /\ rb_rec.f["loan_percent_income"].n < 20
    /\ rb_rec.f["person_income"].n > 5000000

Handled == resp # NoResp
NonEmptyBatch == req.kind = "object" /\ req.records = "list" /\ req.items # <<>>
UseModel == model # "None"
RaisesAt(i) == decide(req.items[i], UseModel, clf[i]).raised
SrcOf(preds) == { preds[k].src : k \in 1..Len(preds) }

\* C2: in a non-empty batch a record whose processing raises is skipped and
\* every other record is decided; the batch never ends in an error response.
C2_BadRecordSkipped ==
    (Handled /\ NonEmptyBatch) =>
        /\ resp.status = 200
        /\ SrcOf(resp.predictions) = { i \in 1..Len(req.items) : ~RaisesAt(i) }

\* C3: without a classifier every mapping of the batch yields exactly one
\* decision, that of the rule cascade on its normalized form.
C3_NormalizedBeforeDecided ==
    (Handled /\ NonEmptyBatch /\ model = "None"
       /\ \A i \in 1..Len(req.items) : req.items[i].isMap) =>
        /\ resp.status = 200
        /\ Len(resp.predictions) = Len(req.items)
        /\ \A i \in 1..Len(req.items) :
             LET d == predict_rule_based(processed_record(req.items[i]))
             IN  /\ resp.predictions[i].src = i
                 /\ resp.predictions[i].decision = d.prediction
                 /\ resp.predictions[i].confidence = d.confidence

ApprovedAt(i) ==
    LET d == decide(req.items[i], UseModel, clf[i])
    IN  ~d.raised /\ d.prediction = "APPROVED"

\* C9: an empty or absent records sequence is answered 400 with no decision,
\* and a non-empty batch with no approved record is answered 200.
C9_EmptyInputIsClientError ==
    (Handled /\ req.kind = "object") =>
        /\ (req.records # "list" \/ req.items = <<>>) =>
              (resp.status = 400 /\ resp.predictions = <<>>)
        /\ (NonEmptyBatch /\ \A i \in 1..Len(req.items) : ~ApprovedAt(i)) =>
              resp.status = 200

ClassifierRaisesAt(i) == HasFeatures(req.items[i]) /\ clf[i].raises
ClassifierDecidesAt(i) == HasFeatures(req.items[i]) /\ ~clf[i].raises

\* C10: with a classifier loaded, a record on which the classifier raises is
\* decided by the rules (not dropped, no error), and the other records are
\* decided by the classifier as it answered.
C10_ClassifierFailureFallsBack ==
    (Handled /\ NonEmptyBatch /\ model = "loaded") =>
        \A i \in 1..Len(req.items) :
            /\ ClassifierRaisesAt(i) =>
                 /\ resp.status = 200
                 /\ \E k \in 1..Len(resp.predictions) :
                      /\ resp.predictions[k].src = i
                      /\ resp.predictions[k].by = "rules"
            /\ ((\E j \in 1..Len(req.items) : ClassifierRaisesAt(j))
                  /\ ClassifierDecidesAt(i)) =>
                 \E k \in 1..Len(resp.predictions) :
                      /\ resp.predictions[k].src = i
                      /\ resp.predictions[k].by = "model"
                      /\ resp.predictions[k].confidence = clf[i].proba
                      /\ resp.predictions[k].decision =
                           (IF clf[i].cls = 1 THEN "APPROVED" ELSE "REJECTED")

Read == rd # NoRd /\ rd.op \in {"latest", "summary"}
Today == Date(rd.at)
CacheFresh == rd.before.data # None /\ rd.at - rd.before.timestamp < TTL
LastFetched == rd.fetched[Len(rd.fetched)]

\* C4: a read request that finds a cache entry younger than the TTL returns
\* the cached bundle unchanged and asks the bucket for nothing, whatever the
\* cached bundle holds.
C4_FreshCacheServedWithoutFetch ==
    (Read /\ CacheFresh) =>
        /\ rd.hit
        /\ rd.fetched = <<>>
        /\ rd.data = rd.before.data
        /\ CACHE = rd.before

\* C5: a read request that finds no cache entry, or one whose age is the TTL
\* or more, is not served from the cache: it makes one refill attempt
\* sequence, and when an attempt succeeds the cache entry becomes the bundle
\* just built, with fetched_at the time of the request.
C5_StaleCacheRefilled ==
    (Read /\ ~CacheFresh) =>
        /\ ~rd.hit
        /\ rd.fetched # <<>>
        /\ rd.found =>
             /\ CACHE = [data |-> rd.data, timestamp |-> rd.at]
             /\ rd.data.kind \in {"capped", "raw"}
             /\ rd.data.kind = "capped" =>
                  (rd.data.timestamp = rd.at /\ rd.data.date = LastFetched)

\* A cache entry exactly TTL seconds old was replaced.
C5_Witness ==
    /\ Read
    /\ rd.before.data # None
    /\ rd.at - rd.before.timestamp = TTL
    /\ rd.found
    /\ CACHE.timestamp = rd.at
    /\ CACHE.data # rd.before.data

\* The object of a partition is data the reader can use: a JSON object that,
\* when it has a prediction list, has a decision in every entry and stats
\* that are not null.
Usable(doc) ==
    \/ doc.kind \in {"emptyobj", "otherobj"}
    \/ /\ doc.kind = "bundle"
       /\ doc.stats.shape # "null"
       /\ \A i \in 1..Len(doc.preds) : doc.preds[i].decision # "missing"

\* C6: on a cache miss at most two partitions are fetched, today's then
\* yesterday's; the first usable one ends the sequence and is the one
\* returned; nothing older than yesterday is fetched.
C6_TwoAttemptsMostRecentFirst ==
    (Read /\ ~rd.hit) =>
        /\ rd.fetched \in {<<Today>>, <<Today, Today - 1>>}
        /\ Usable(ObjectAt(store, Today)) =>
             (rd.fetched = <<Today>> /\ rd.found)
        /\ rd.found <=> Usable(ObjectAt(store, LastFetched))
        /\ (rd.found /\ rd.data.kind = "capped") => rd.data.date = LastFetched
        /\ (rd.found /\ rd.data.kind = "raw") =>
             rd.data.raw = ObjectAt(store, LastFetched).kind
        /\ ~rd.found => rd.data.kind = "empty"

\* Today's partition failed, yesterday's was returned, and an older usable
\* partition was left alone.
C6_Witness ==
    /\ Read
    /\ rd.fetched = <<Today, Today - 1>>
    /\ rd.found
    /\ rd.data.kind = "capped"
    /\ Today >= 2
    /\ Usable(ObjectAt(store, Today - 2))

Persisted == ObjectAt(store, LastFetched)
CountIn(preds, d) == Cardinality({ i \in 1..Len(preds) : preds[i].decision = d })

\* C7: a bundle returned after a successful fetch lists at most 20 APPROVED
\* then at most 20 REJECTED entries, each group the first 20 of its decision
\* in persisted order, and its four stats are the persisted bundle's own
\* (uncapped) stats.
C7_CappedListUncappedStats ==
    (Read /\ rd.found /\ rd.data.kind = "capped") =>
        /\ rd.data.predictions =
             FirstCap(SelectSeq(Persisted.preds, IsApproved))
                \o FirstCap(SelectSeq(Persisted.preds, IsRejected))
        /\ CountIn(rd.data.predictions, "APPROVED") <= CAP
        /\ CountIn(rd.data.predictions, "REJECTED") <= CAP
        /\ rd.data.total_applications = Persisted.stats.total
        /\ rd.data.approved_count = Persisted.stats.approved
        /\ rd.data.rejected_count = Persisted.stats.rejected
        /\ rd.data.approval_rate = Persisted.stats.rate

\* C8: when both attempts fail the request returns the empty bundle, and no
\* read request is ever answered with an error.
C8_ReadsNeverFail ==
    Read =>
        /\ rd.status = 200
        /\ (~rd.hit /\ ~rd.found) =>
             /\ rd.data.kind = "empty"
             /\ rd.data.predictions = <<>>
             /\ rd.data.total_applications = 0
             /\ rd.data.approved_count = 0
             /\ rd.data.rejected_count = 0
             /\ rd.data.approval_rate = 0

DecisionsIn(preds, d) == { k \in 1..Len(preds) : preds[k].decision = d }
Abs(x) == IF x >= 0 THEN x ELSE -x

\* C13: in every bundle of the batch scorer total_applications is the length
\* of the prediction list, approved_count and rejected_count are the numbers
\* of APPROVED and REJECTED entries in it (and sum to the total), and
\* approval_rate is approved_count / total * 100 rounded to the nearest
\* hundredth, or 0 when the list is empty.
C13_StatsAreExactAggregates ==
    (Handled /\ resp.status = 200) =>
        LET preds == resp.predictions
            st    == resp.stats
        IN  /\ st.total_applications = Len(preds)
            /\ st.approved_count = Cardinality(DecisionsIn(preds, "APPROVED"))
            /\ st.rejected_count = Cardinality(DecisionsIn(preds, "REJECTED"))
            /\ st.approved_count + st.rejected_count = st.total_applications
            /\ IF st.total_applications = 0
               THEN st.approval_rate = 0
               ELSE 2 * Abs(st.approval_rate * st.total_applications
                            - st.approved_count * 10000)
                      <= st.total_applications

\* Two approved of three (66.67 %), and a bundle with no prediction at all.
C13_Witness ==
    /\ Handled
    /\ resp.status = 200
    /\ \/ /\ resp.stats.total_applications = 3
          /\ resp.stats.approved_count = 2
          /\ resp.stats.approval_rate = 6667
       \/ /\ Len(req.items) = 2
          /\ resp.stats.total_applications = 0
          /\ resp.stats.approval_rate = 0

\* Feature extraction on record i raises: df[feature_cols] when a classifier
\* is loaded, the reads of the rule cascade when none is.
MalformedAt(i) ==
    IF UseModel THEN ~HasFeatures(req.items[i])
    ELSE predict_rule_based(req.items[i]).raised

\* C16: a batch of 3 records of which exactly one raises during feature
\* extraction is answered with exactly the two decisions of the other
\* records and total_applications = 2.
C16_OneMalformedOfThree ==
    (Handled /\ NonEmptyBatch /\ Len(req.items) = 3) =>
        \A i \in 1..3 :
            (/\ MalformedAt(i)
             /\ \A j \in (1..3) \ {i} : ~MalformedAt(j) /\ ~RaisesAt(j)) =>
                /\ resp.status = 200
                /\ Len(resp.predictions) = 2
                /\ SrcOf(resp.predictions) = (1..3) \ {i}
                /\ resp.stats.total_applications = 2

\* C17: the prediction list is no longer than the input, its entries follow
\* the order of their records in the input, each entry is the decision of its
\* record, and a completed batch has one entry per record that was not
\* skipped.
C17_OrderPreservingSubsequence ==
    Handled =>
        LET preds == resp.predictions
        IN  /\ Len(preds) <= Len(req.items)
            /\ \A k \in 1..Len(preds) :
                   /\ preds[k].src \in 1..Len(req.items)
                   /\ preds[k].decision =
                        decide(req.items[preds[k].src], UseModel, clf[preds[k].src]).prediction
            /\ \A k, l \in 1..Len(preds) : k < l => preds[k].src < preds[l].src
            /\ resp.status = 200 =>
                   Cardinality(SrcOf(preds)) = Len(preds)
                   /\ SrcOf(preds) = { i \in 1..Len(req.items) : ~RaisesAt(i) }

\* The middle record of three was skipped and the other two kept their order.
C17_Witness ==
    /\ Handled
    /\ resp.status = 200
    /\ Len(req.items) = 3
    /\ Len(resp.predictions) = 2
    /\ resp.predictions[1].src = 1
    /\ resp.predictions[2].src = 3
    /\ resp.predictions[1].decision # resp.predictions[2].decision

----------------------------------------------------------------------------
(* Claims on process_loan_applications (SpecNorm) *)

Normalized == processed.called

\* The schema's declared types (spec, data model table).
DeclaredType(k) ==
    IF k \in {"person_age", "person_emp_exp", "cb_person_cred_hist_length"} THEN "int"
    ELSE IF k \in {"person_income", "loan_amnt", "loan_int_rate", "loan_percent_income"}
         THEN "float"
    ELSE "str"

\* The records emitted for application i.
EmittedFor(i) == { j \in 1..Len(processed.records) : processed.records[j].src = i }

\* C11: for every raw record mapping (the empty mapping, wrong-typed values
\* and nulls in any field included) normalization emits a record, and that
\* record holds each of the 16 schema fields with its declared type: integer,
\* float, or string.
C11_EveryFieldPresentAndTyped ==
    Normalized =>
        \A i \in 1..Len(apps) :
            apps[i].isMap =>
                /\ Cardinality(EmittedFor(i)) = 1
                /\ \A j \in EmittedFor(i) :
                       /\ DOMAIN processed.records[j].f = SchemaFields
                       /\ \A k \in SchemaFields :
                              processed.records[j].f[k].t = DeclaredType(k)

\* Which strings Python parses as a number, and as an integer.
NumberLiterals == {"0.5", "60000"}
IntegerLiterals == {"60000"}
LiteralValue(str) == IF str = "0.5" THEN 50 ELSE IF str = "60000" THEN 6000000 ELSE 0
Convertible(v, type) ==
    \/ v.t = "num"
    \/ v.t = "str" /\ v.s \in (IF type = "int" THEN IntegerLiterals ELSE NumberLiterals)
Converted(v, type) ==
    LET x == IF v.t = "num" THEN v.n ELSE LiteralValue(v.s)
    IN  IF type = "float" THEN x
        ELSE IF x >= 0 THEN x - (x % 100) ELSE x + ((-x) % 100)

\* C12: every numeric field of an emitted record holds the input converted to
\* the field's declared type when the input is present and convertible, and
\* the zero of that type when it is missing, None, '', 'null' or does not
\* parse; no input makes the coercion raise (the record is always emitted).
C12_NumericCoercion ==
    Normalized =>
        \A i \in 1..Len(apps) :
            apps[i].isMap =>
                /\ EmittedFor(i) # {}
                /\ \A j \in EmittedFor(i) :
                     \A k \in SchemaFields :
                        DeclaredType(k) # "str" =>
                            LET v == apps[i].f[k]
                                out == processed.records[j].f[k]
                            IN  /\ out.t = DeclaredType(k)
                                /\ out.n = IF Convertible(v, DeclaredType(k))
                                           THEN Converted(v, DeclaredType(k))
                                           ELSE 0

\* A number with a fraction in an integer field came out truncated, and an
\* unparseable string in a float field came out as 0.0.
C12_Witness ==
    /\ Normalized
    /\ Len(apps) = 1
    /\ processed.processed_count = 1
    /\ \/ /\ apps[1].f["person_age"] = Num(2550)
          /\ processed.records[1].f["person_age"] = [t |-> "int", n |-> 2500, s |-> ""]
       \/ /\ apps[1].f["loan_amnt"] = Str("abc")
          /\ processed.records[1].f["loan_amnt"] = [t |-> "float", n |-> 0, s |-> ""]

----------------------------------------------------------------------------
(* Claims on the cache, the persisted document and the health probe (SpecRead) *)

\* C15: a read request that misses the cache and fetches a bundle the
\* predictor lambda persisted returns the aggregates the predictor computed
\* for it: its number of predictions, its numbers of APPROVED and REJECTED
\* decisions, and the approval rate of these.
C15_PersistedShapeMatchesReader ==
    (Read /\ ~rd.hit /\ rd.found /\ Persisted.kind = "bundle"
       /\ Persisted.stats.shape = "lambda") =>
        LET n == Len(Persisted.preds)
            a == CountIn(Persisted.preds, "APPROVED")
        IN  /\ rd.data.total_applications = n
            /\ rd.data.approved_count = a
            /\ rd.data.rejected_count = CountIn(Persisted.preds, "REJECTED")
            /\ 2 * Abs(rd.data.approval_rate * n - a * 10000) <= n

\* The step is a read request that missed, found a usable partition, returned
\* it and left it in the cache.
RefillReturned ==
    /\ rd = NoRd
    /\ rd'.op \in {"latest", "summary"}
    /\ ~rd'.hit
    /\ rd'.found
    /\ CACHE' = [data |-> rd'.data, timestamp |-> rd'.at]

\* C18: the cache entry changes only in a read request that misses and whose
\* successful fetch is the one returned; hits, failed attempts (not found,
\* unparseable, wrong shape), requests whose attempts all fail, the health
\* probe and every other step leave it as it was.
C18_CacheChangesOnlyOnRefill ==
    [][CACHE' # CACHE => RefillReturned]_vars

HealthProbe == rd # NoRd /\ rd.op = "health"

\* C20: GET /health reports cache_valid = true exactly when a read request
\* at the same instant would be served from the cache without a fetch.
C20_HealthAgreesWithReadPath ==
    HealthProbe =>
        (rd.body.cache_valid <=> load_predictions_fast(rd.before, rd.at, store).hit)

----------------------------------------------------------------------------
(* Claims on the lambdas' hand-off (SpecPipeline) *)

\* C14: a predictor run triggered by a completed processor run reads the
\* object that processor run wrote and ends with the day's predictions
\* bundle persisted.
C14_ProcessToPredictHandOff ==
    prun.ran =>
        /\ prun.read = prun.wrote
        /\ prun.statusCode = 200
        /\ prun.persisted
        /\ bucket[predictions_key(prun.wrote.day)].kind = "predictions"

----------------------------------------------------------------------------
(* Claims on concurrent read requests (SpecConc) *)

\* The thread has passed its TTL check and not yet finished its cache write.
InRefill(t) == th[t].pc \in {"fetch", "write_data", "write_ts"}

\* C19: the check-TTL-then-refill sequence is atomic: never are two requests
\* both between their TTL check and their cache write, and no request is
\* served a cache entry whose data and timestamp come from different refills.
C19_RefillIsAtomic ==
    /\ \A t, u \in Threads : (t # u /\ InRefill(t)) => ~InRefill(u)
    /\ \A t \in Threads : th[t].pc = "respond" => ~th[t].torn

====
